---- MODULE Spec2Model ----
(***************************************************************************)
(* Model of the blinker crate (src/src/lib.rs): a Blinker owns an output   *)
(* pin and a heapless::Vec<Schedule, N> used as a stack.  push_schedule    *)
(* and reset are synchronous; step is async and suspends once, on          *)
(* Timer::after(dur), between the pin toggle and decrease_count.           *)
(***************************************************************************)
EXTENDS Integers, Sequences, FiniteSets, TLC

\* ---------------------------------------------------------------- bounds
\* capacity of the heapless Vec (the const generic N; the tests use 2)
N == 2
\* largest count of a pushed Finite schedule
MaxCount == 2
\* durations are 1..MaxDur (abstract ticks)
MaxDur == 2
\* completed steps recorded in one tracked run
MaxSteps == N * (MaxCount + 1) + 1

\* ------------------------------------------------------------- Schedule
Infinite(d) == [kind |-> "Infinite", count |-> 0, dur |-> d]

Finite(c, d) == [kind |-> "Finite", count |-> c, dur |-> d]

Durations == 1..MaxDur

Schedule == {Infinite(d) : d \in Durations}
            \cup {Finite(c, d) : c \in 0..MaxCount, d \in Durations}

\* placeholder where a call carries no schedule
NoSchedule == [kind |-> "None", count |-> 0, dur |-> 0]

\* ------------------------------------------------- heapless::Vec methods
last(v) == v[Len(v)]

pop(v) == SubSeq(v, 1, Len(v) - 1)

clear_keep_bottom(v) == IF v = <<>> THEN v ELSE <<v[1]>>

\* Vec::clear
clear(v) == SubSeq(v, 1, 0)

push_overwrite(v, x) ==
    IF Len(v) < N
    THEN [vec |-> Append(v, x), ok |-> TRUE, rejected |-> NoSchedule]
    ELSE [vec |-> Append(pop(v), x), ok |-> FALSE, rejected |-> last(v)]

push_bottom(v, x) ==
    IF Len(v) < N
    THEN [vec |-> <<x>> \o v, ok |-> TRUE, rejected |-> NoSchedule]
    ELSE [vec |-> v, ok |-> FALSE, rejected |-> x]

\* Vec::push as used by push_schedule: Err(item) when the Vec is full
push(v, x) ==
    IF Len(v) < N
    THEN [vec |-> Append(v, x), ok |-> TRUE, rejected |-> NoSchedule]
    ELSE [vec |-> v, ok |-> FALSE, rejected |-> x]

\* u32::checked_sub(1): None on underflow
checked_sub_wrapping(c, k) ==
    [some |-> TRUE, val |-> IF c >= k THEN c - k ELSE 2147483647]

checked_sub(c, k) == IF c >= k THEN [some |-> TRUE, val |-> c - k]
                              ELSE [some |-> FALSE, val |-> 0]

\* ------------------------------------------------------------------ pin
\* the pin level is 0 (low) or 1 (high); a failing operation leaves it alone
toggle(lv, pinOk) == IF pinOk THEN 1 - lv ELSE lv

set_low(lv, pinOk) == IF pinOk THEN 0 ELSE lv

\* ------------------------------------------------------- decrease_count
decrease_count_pop_at_zero(v) ==
    IF v # <<>> /\ last(v).kind = "Finite"
    THEN IF last(v).count >= 2
         THEN [v EXCEPT ![Len(v)].count = last(v).count - 1]
         ELSE pop(v)
    ELSE v

decrease_count_never_pop(v) ==
    IF v # <<>> /\ last(v).kind = "Finite"
    THEN IF last(v).count >= 1
         THEN [v EXCEPT ![Len(v)].count = last(v).count - 1]
         ELSE v
    ELSE v

decrease_count_by_two(v) ==
    IF v # <<>> /\ last(v).kind = "Finite"
    THEN IF checked_sub(last(v).count, 2).some
         THEN [v EXCEPT ![Len(v)].count = checked_sub(last(v).count, 2).val]
         ELSE pop(v)
    ELSE v

decrease_count_bottom(v) ==
    IF v # <<>> /\ v[1].kind = "Finite"
    THEN IF checked_sub(v[1].count, 1).some
         THEN [v EXCEPT ![1].count = checked_sub(v[1].count, 1).val]
         ELSE pop(v)
    ELSE v

decrease_count_any_kind(v) ==
    IF v # <<>>
    THEN IF checked_sub(last(v).count, 1).some
         THEN [v EXCEPT ![Len(v)].count = checked_sub(last(v).count, 1).val]
         ELSE pop(v)
    ELSE v

\* if the top is Finite: count.checked_sub(1), store it, or pop on underflow
decrease_count(v) ==
    IF v # <<>> /\ last(v).kind = "Finite"
    THEN IF checked_sub(last(v).count, 1).some
         THEN [v EXCEPT ![Len(v)].count = checked_sub(last(v).count, 1).val]
         ELSE pop(v)
    ELSE v

\* ------------------------------------------------------------ Blinker
VARIABLES
    schedule,     \* Blinker.schedule, bottom first, top last
    level,        \* output level of Blinker.pin
    pc,           \* "idle", or "timer" while a step is suspended on Timer::after
    timer,        \* duration the suspended step waits for (0: no timer armed)
    call,         \* record of the latest call (the one in flight while pc = "timer")
    resetFailed,  \* a reset has failed and none has succeeded since
    tracking,     \* the run since the stack was last empty is pushes, then completed steps
    pushed,       \* tracked run: the schedules pushed onto the empty stack
    steps         \* tracked run: one record per completed step after the pushes

vars == <<schedule, level, pc, timer, call, resetFailed, tracking, pushed, steps>>

NoCall == [op |-> "none", pre |-> <<>>, arg |-> NoSchedule, ret |-> "None",
           rejected |-> NoSchedule, pinOps |-> <<>>, suspends |-> 0,
           waited |-> 0, retry |-> FALSE, preLevel |-> 0]

\* Blinker::new: empty stack, pin untouched (its level is whatever it was)
Init ==
    /\ schedule = <<>>
    /\ level \in {0, 1}
    /\ pc = "idle"
    /\ timer = 0
    /\ call = NoCall
    /\ resetFailed = FALSE
    /\ tracking = TRUE
    /\ pushed = <<>>
    /\ steps = <<>>

Untrack ==
    /\ tracking' = FALSE
    /\ pushed' = <<>>
    /\ steps' = <<>>

\* ------------------------------------------------------- push_schedule
PushSchedule(s) ==
    /\ pc = "idle"
    /\ LET r == push(schedule, s) IN
       /\ schedule' = r.vec
       /\ call' = [NoCall EXCEPT !.op = "push", !.pre = schedule, !.preLevel = level, !.arg = s,
                                 !.ret = IF r.ok THEN "Ok" ELSE "Err",
                                 !.rejected = r.rejected]
       /\ IF r.ok /\ schedule = <<>>
          THEN tracking' = TRUE /\ pushed' = <<s>> /\ steps' = <<>>
          ELSE IF r.ok /\ tracking /\ steps = <<>>
               THEN /\ pushed' = Append(pushed, s)
                    /\ UNCHANGED <<tracking, steps>>
               ELSE Untrack
    /\ UNCHANGED <<level, pc, timer, resetFailed>>

\* --------------------------------------------------------------- reset
reset_clear_first(v, lv, pinOk) ==
    [vec |-> clear(v), level |-> set_low(lv, pinOk), ok |-> pinOk,
     pinOps |-> <<"set_low">>]

reset_pop_only(v, lv, pinOk) ==
    [vec |-> IF pinOk /\ v # <<>> THEN pop(v) ELSE v,
     level |-> set_low(lv, pinOk), ok |-> pinOk, pinOps |-> <<"set_low">>]

\* self.pin.set_low()?; self.schedule.clear(); Ok(())
reset(v, lv, pinOk) ==
    IF pinOk
    THEN [vec |-> clear(v), level |-> set_low(lv, TRUE), ok |-> TRUE,
          pinOps |-> <<"set_low">>]
    ELSE [vec |-> v, level |-> set_low(lv, FALSE), ok |-> FALSE,
          pinOps |-> <<"set_low">>]

Reset ==
    /\ pc = "idle"
    /\ \E pinOk \in BOOLEAN :
         LET r == reset(schedule, level, pinOk) IN
         /\ schedule' = r.vec
         /\ level' = r.level
         /\ call' = [NoCall EXCEPT !.op = "reset", !.pre = schedule, !.preLevel = level,
                                   !.ret = IF r.ok THEN "Ok" ELSE "Err",
                                   !.pinOps = r.pinOps, !.retry = resetFailed]
         /\ resetFailed' = ~r.ok
    /\ Untrack
    /\ UNCHANGED <<pc, timer>>

\* ---------------------------------------------------------------- step
step_poll_toggle_empty(v, lv, pinOk) ==
    IF v # <<>>
    THEN IF pinOk
         THEN [state |-> "Pending", vec |-> v, level |-> toggle(lv, TRUE),
               pinOps |-> <<"toggle">>, timer |-> last(v).dur]
         ELSE [state |-> "Err", vec |-> v, level |-> toggle(lv, FALSE),
               pinOps |-> <<"toggle">>, timer |-> 0]
    ELSE [state |-> "Ok", vec |-> decrease_count(v), level |-> toggle(lv, TRUE),
          pinOps |-> <<"toggle">>, timer |-> 0]

step_poll_count_on_error(v, lv, pinOk) ==
    IF v # <<>>
    THEN IF pinOk
         THEN [state |-> "Pending", vec |-> v, level |-> toggle(lv, TRUE),
               pinOps |-> <<"toggle">>, timer |-> last(v).dur]
         ELSE [state |-> "Err", vec |-> decrease_count(v), level |-> toggle(lv, FALSE),
               pinOps |-> <<"toggle">>, timer |-> 0]
    ELSE [state |-> "Ok", vec |-> decrease_count(v), level |-> lv,
          pinOps |-> <<>>, timer |-> 0]

step_poll_first_dur(v, lv, pinOk) ==
    IF v # <<>>
    THEN IF pinOk
         THEN [state |-> "Pending", vec |-> v, level |-> toggle(lv, TRUE),
               pinOps |-> <<"toggle">>, timer |-> v[1].dur]
         ELSE [state |-> "Err", vec |-> v, level |-> toggle(lv, FALSE),
               pinOps |-> <<"toggle">>, timer |-> 0]
    ELSE [state |-> "Ok", vec |-> decrease_count(v), level |-> lv,
          pinOps |-> <<>>, timer |-> 0]

step_poll_wait_first(v, lv, pinOk) ==
    IF v # <<>>
    THEN IF pinOk
         THEN [state |-> "Pending", vec |-> v, level |-> lv,
               pinOps |-> <<>>, timer |-> last(v).dur]
         ELSE [state |-> "Err", vec |-> v, level |-> toggle(lv, FALSE),
               pinOps |-> <<"toggle">>, timer |-> 0]
    ELSE [state |-> "Ok", vec |-> decrease_count(v), level |-> lv,
          pinOps |-> <<>>, timer |-> 0]

step_poll_count_before_wait(v, lv, pinOk) ==
    IF v # <<>>
    THEN IF pinOk
         THEN [state |-> "Pending", vec |-> decrease_count(v), level |-> toggle(lv, TRUE),
               pinOps |-> <<"toggle">>, timer |-> last(v).dur]
         ELSE [state |-> "Err", vec |-> v, level |-> toggle(lv, FALSE),
               pinOps |-> <<"toggle">>, timer |-> 0]
    ELSE [state |-> "Ok", vec |-> decrease_count(v), level |-> lv,
          pinOps |-> <<>>, timer |-> 0]

\* step up to its first suspension or return: on a non-empty stack toggle the
\* pin (returning its error) and arm Timer::after(*dur); on an empty stack run
\* decrease_count and return Ok
step_poll(v, lv, pinOk) ==
    IF v # <<>>
    THEN IF pinOk
         THEN [state |-> "Pending", vec |-> v, level |-> toggle(lv, TRUE),
               pinOps |-> <<"toggle">>, timer |-> last(v).dur]
         ELSE [state |-> "Err", vec |-> v, level |-> toggle(lv, FALSE),
               pinOps |-> <<"toggle">>, timer |-> 0]
    ELSE [state |-> "Ok", vec |-> decrease_count(v), level |-> lv,
          pinOps |-> <<>>, timer |-> 0]

\* step after the timer has elapsed: self.decrease_count(); Ok(())
step_resume(v) == decrease_count(v)

Toggles(ops) == Cardinality({i \in 1..Len(ops) : ops[i] = "toggle"})

\* a call to step, run to its suspension on the timer or to its return
Step ==
    /\ pc = "idle"
    /\ tracking => Len(steps) < MaxSteps
    /\ \E pinOk \in BOOLEAN :
         LET r == step_poll(schedule, level, pinOk) IN
         /\ schedule' = r.vec
         /\ level' = r.level
         /\ timer' = r.timer
         /\ pc' = IF r.state = "Pending" THEN "timer" ELSE "idle"
         /\ call' = [NoCall EXCEPT !.op = "step", !.pre = schedule, !.preLevel = level,
                                   !.ret = r.state, !.pinOps = r.pinOps,
                                   !.suspends = IF r.state = "Pending" THEN 1 ELSE 0]
         /\ IF r.state = "Pending"
            THEN UNCHANGED <<tracking, pushed, steps>>
            ELSE IF r.state = "Ok" /\ tracking
                 THEN /\ steps' = Append(steps, [toggles |-> Toggles(r.pinOps), wait |-> 0])
                      /\ UNCHANGED <<tracking, pushed>>
                 ELSE Untrack
    /\ UNCHANGED resetFailed

\* the timer fires and the suspended step runs to its return
StepResume ==
    /\ pc = "timer"
    /\ schedule' = step_resume(schedule)
    /\ pc' = "idle"
    /\ timer' = 0
    /\ call' = [call EXCEPT !.ret = "Ok", !.waited = timer]
    /\ IF tracking
       THEN /\ steps' = Append(steps, [toggles |-> Toggles(call.pinOps), wait |-> timer])
            /\ UNCHANGED <<tracking, pushed>>
       ELSE Untrack
    /\ UNCHANGED <<level, resetFailed>>

StepCancel_untoggle ==
    /\ pc = "timer"
    /\ pc' = "idle"
    /\ timer' = 0
    /\ level' = 1 - level
    /\ call' = [call EXCEPT !.ret = "Dropped"]
    /\ Untrack
    /\ UNCHANGED <<schedule, resetFailed>>

\* the future of the suspended step is dropped (select with another future)
StepCancel ==
    /\ pc = "timer"
    /\ pc' = "idle"
    /\ timer' = 0
    /\ call' = [call EXCEPT !.ret = "Dropped"]
    /\ Untrack
    /\ UNCHANGED <<schedule, level, resetFailed>>

Next ==
    \/ \E s \in Schedule : PushSchedule(s)
    \/ Reset
    \/ Step
    \/ StepResume
    \/ StepCancel

Spec == Init /\ [][Next]_vars

TypeOK ==
    /\ Len(schedule) <= N
    /\ \A i \in 1..Len(schedule) : schedule[i] \in Schedule
    /\ level \in {0, 1}
    /\ pc \in {"idle", "timer"}
    /\ timer \in 0..MaxDur
    /\ tracking \in BOOLEAN

\* ------------------------------------------------------- tracked runs
RECURSIVE SumToggles(_)
SumToggles(st) ==
    IF st = <<>> THEN 0 ELSE st[Len(st)].toggles + SumToggles(pop(st))

\* the stack was empty, exactly the schedules p were pushed, then only
\* completed steps ran, and no call is in flight
Run(p) == tracking /\ pc = "idle" /\ pushed = p

Min(a, b) == IF a <= b THEN a ELSE b

C3_InfiniteNeverPopped ==
    /\ \A d \in Durations :
           Run(<<Infinite(d)>>) =>
               /\ schedule = <<Infinite(d)>>
               /\ SumToggles(steps) = Len(steps)
    /\ (call.op = "step" /\ call.ret = "Ok" /\ call.pre # <<>>
            /\ last(call.pre).kind = "Infinite") => schedule = call.pre

C3_Witness ==
    /\ Run(<<Infinite(MaxDur)>>)
    /\ Len(steps) = MaxSteps
    /\ schedule = <<Infinite(MaxDur)>>

\* ---------------------------------------------------------------- C4
\* C4: a successful reset leaves the stack empty and performs exactly one
\* pin operation, a set_low (no toggle), whatever the stack held.
C4_ResetClears ==
    (call.op = "reset" /\ call.ret = "Ok") =>
        /\ schedule = <<>>
        /\ call.pinOps = <<"set_low">>
        /\ Toggles(call.pinOps) = 0
        /\ level = 0

C4_Witness ==
    /\ call.op = "reset"
    /\ call.ret = "Ok"
    /\ Len(call.pre) = N
    /\ \E i \in 1..N : call.pre[i].kind = "Finite" /\ call.pre[i].count > 0
    /\ \E i \in 1..N : call.pre[i].kind = "Infinite"
    /\ schedule = <<>>

\* ---------------------------------------------------------------- C5
\* C5: the stack never holds more than N entries; a push on a full stack
\* returns Err with the same schedule and changes nothing, a push on a
\* stack with room returns Ok and adds the schedule on top.
C5_Capacity ==
    /\ Len(schedule) <= N
    /\ call.op = "push" =>
           IF Len(call.pre) >= N
           THEN /\ call.ret = "Err"
                /\ call.rejected = call.arg
                /\ schedule = call.pre
           ELSE /\ call.ret = "Ok"
                /\ Len(schedule) = Len(call.pre) + 1
                /\ schedule = Append(call.pre, call.arg)

C5_Witness ==
    /\ call.op = "push"
    /\ call.ret = "Err"
    /\ Len(call.pre) = N
    /\ call.rejected = Finite(MaxCount, MaxDur)
    /\ last(call.pre) # call.rejected
    /\ schedule = call.pre

\* ---------------------------------------------------------------- C6
\* C6: step on an empty stack returns Ok without any pin operation and
\* without suspending, and leaves the stack empty and the pin level as it
\* was; repeated, nothing changes.
C6_StepOnEmpty ==
    /\ (call.op = "step" /\ call.pre = <<>>) =>
           /\ call.ret = "Ok"
           /\ pc = "idle"
           /\ call.pinOps = <<>>
           /\ call.suspends = 0
           /\ call.waited = 0
           /\ schedule = <<>>
           /\ level = call.preLevel
    /\ Run(<<>>) =>
           /\ schedule = <<>>
           /\ \A i \in 1..Len(steps) : steps[i] = [toggles |-> 0, wait |-> 0]

C6_Witness ==
    /\ Run(<<>>)
    /\ Len(steps) = MaxSteps
    /\ call.op = "step"
    /\ call.pre = <<>>
    /\ call.ret = "Ok"

C8_ResetFailureKeepsStack ==
    /\ (call.op = "reset" /\ call.ret = "Err") =>
           /\ schedule = call.pre
           /\ resetFailed
    /\ (call.op = "reset" /\ call.ret = "Ok" /\ call.retry) => schedule = <<>>

C8_Witness ==
    /\ call.op = "reset"
    /\ call.ret = "Err"
    /\ call.retry
    /\ Len(call.pre) = N
    /\ call.pre[1].kind = "Infinite"
    /\ call.pre[N] = Finite(MaxCount, 1)
    /\ schedule = call.pre

\* ---------------------------------------------------------------- C9
\* C9: a step whose toggle fails returns the error without suspending and
\* without retirement bookkeeping: the stack is as before the call.
C9_ToggleFailureKeepsStack ==
    (call.op = "step" /\ call.ret = "Err") =>
        /\ call.pre # <<>>
        /\ schedule = call.pre
        /\ call.suspends = 0
        /\ call.waited = 0
        /\ pc = "idle"
        /\ timer = 0

C9_Witness ==
    /\ call.op = "step"
    /\ call.ret = "Err"
    /\ Len(call.pre) = N
    /\ last(call.pre) = Finite(0, 1)
    /\ schedule = call.pre

\* --------------------------------------------------------------- C10
\* C10: while a step is suspended on the timer, and after it is dropped
\* there, the stack is exactly as it was at the start of that step.
C10_CancelKeepsStack ==
    /\ pc = "timer" => schedule = call.pre /\ call.op = "step"
    /\ (call.op = "step" /\ call.ret = "Dropped") =>
           /\ schedule = call.pre
           /\ pc = "idle"

C10_Witness ==
    /\ call.op = "step"
    /\ call.ret = "Dropped"
    /\ call.suspends = 1
    /\ Len(call.pre) = N
    /\ last(call.pre) = Finite(0, 1)
    /\ schedule = call.pre

\* --------------------------------------------------------------- C11
\* a completed step that found a Finite schedule on top
FiniteStepDone ==
    /\ call.op = "step"
    /\ call.ret = "Ok"
    /\ call.pre # <<>>
    /\ last(call.pre).kind = "Finite"

NoZeroCount(v) == \A i \in 1..Len(v) : ~(v[i].kind = "Finite" /\ v[i].count = 0)

IsPrefix(a, b) == Len(a) <= Len(b) /\ \A i \in 1..Len(a) : a[i] = b[i]

\* C12: whatever its outcome (suspended, completed, failed, dropped), a step
\* leaves every entry below the top as it was and in place, and changes the
\* length by 0 or -1.
C12_StepTouchesOnlyTop ==
    (call.op = "step" /\ Len(call.pre) >= 2) =>
        /\ Len(schedule) \in {Len(call.pre), Len(call.pre) - 1}
        /\ IsPrefix(pop(call.pre), schedule)

C12_Witness ==
    /\ call.op = "step"
    /\ call.ret = "Ok"
    /\ Len(call.pre) = N
    /\ call.pre[1] = Finite(MaxCount, 1)
    /\ last(call.pre) = Finite(1, 2)
    /\ schedule = [call.pre EXCEPT ![N].count = 0]

\* --------------------------------------------------------------- C13
\* C13: a successful push performs no pin operation, keeps the entries
\* beneath and makes s the top; a step waits the interval of the schedule on
\* top when it starts, so the first step after pushes waits the interval of
\* the schedule pushed last and applies retirement to it.
C13_PushMakesTop ==
    /\ (call.op = "push" /\ call.ret = "Ok") =>
           /\ call.pinOps = <<>>
           /\ level = call.preLevel
           /\ schedule = Append(call.pre, call.arg)
    /\ (call.op = "step" /\ pc = "timer") => timer = last(call.pre).dur
    /\ (Run(pushed) /\ pushed # <<>> /\ Len(steps) = 1) =>
           /\ steps[1] = [toggles |-> 1, wait |-> last(pushed).dur]
           /\ IsPrefix(pop(pushed), schedule)
           /\ IF last(pushed).kind = "Finite" /\ last(pushed).count = 0
              THEN schedule = pop(pushed)
              ELSE /\ Len(schedule) = Len(pushed)
                   /\ last(schedule).kind = last(pushed).kind
                   /\ last(schedule).dur = last(pushed).dur
                   /\ last(schedule).count =
                          IF last(pushed).kind = "Finite"
                          THEN last(pushed).count - 1 ELSE 0

C13_Witness ==
    /\ Run(<<Infinite(1), Finite(MaxCount, 2)>>)
    /\ Len(steps) = 1
    /\ steps[1].wait = 2
    /\ schedule = <<Infinite(1), Finite(MaxCount - 1, 2)>>

\* --------------------------------------------------------------- C14
\* C14: a completed step on a Finite(0, d) top toggles once, waits d and
\* pops the schedule; counts never wrap: no entry holds a count above the one
\* it was pushed with.
C14_ZeroCountPopped ==
    /\ (FiniteStepDone /\ last(call.pre).count = 0) =>
           /\ schedule = pop(call.pre)
           /\ call.pinOps = <<"toggle">>
           /\ call.suspends = 1
           /\ call.waited = last(call.pre).dur
    /\ \A i \in 1..Len(schedule) : schedule[i].count <= MaxCount
    /\ (tracking /\ pushed # <<>>) =>
           /\ Len(schedule) <= Len(pushed)
           /\ \A i \in 1..Len(schedule) : schedule[i].count <= pushed[i].count

C14_Witness ==
    /\ Run(<<Finite(1, 1), Finite(0, 2)>>)
    /\ Len(steps) = 1
    /\ steps[1] = [toggles |-> 1, wait |-> 2]
    /\ schedule = <<Finite(1, 1)>>

\* --------------------------------------------------------------- C15
\* C15: a step on a non-empty stack whose toggle succeeds toggles once, then
\* suspends once for the interval of the schedule on top at the start of the
\* call; the stack is untouched while it is suspended, and on completion the
\* retirement rule has been applied to that same top schedule.
C15_ToggleWaitRetire ==
    (call.op = "step" /\ call.pre # <<>> /\ call.ret # "Err") =>
        /\ call.pinOps = <<"toggle">>
        /\ level = 1 - call.preLevel
        /\ call.suspends = 1
        /\ call.ret \in {"Pending", "Ok", "Dropped"}
        /\ call.ret = "Pending" <=> pc = "timer"
        /\ pc = "timer" =>
               /\ timer = last(call.pre).dur
               /\ call.waited = 0
               /\ schedule = call.pre
        /\ call.ret = "Ok" =>
               /\ call.waited = last(call.pre).dur
               /\ IsPrefix(pop(call.pre), schedule)
               /\ IF last(call.pre).kind = "Finite"
                  THEN IF last(call.pre).count = 0
                       THEN schedule = pop(call.pre)
                       ELSE schedule =
                              [call.pre EXCEPT ![Len(call.pre)].count = @ - 1]
                  ELSE schedule = call.pre

C15_Witness ==
    /\ call.op = "step"
    /\ call.ret = "Ok"
    /\ call.pre = <<Finite(1, 1), Finite(MaxCount, 2)>>
    /\ call.waited = 2
    /\ call.pinOps = <<"toggle">>
    /\ schedule = <<Finite(1, 1), Finite(MaxCount - 1, 2)>>

\* ----------------------------------------------------- steady stepping
\* every stack the pushes can build
Stacks == UNION {[1..n -> Schedule] : n \in 0..N}

\* the record push_schedule leaves after the last push that built st
PushedCall(st, lv) ==
    IF st = <<>> THEN NoCall
    ELSE [NoCall EXCEPT !.op = "push", !.pre = pop(st), !.preLevel = lv,
                        !.arg = last(st), !.ret = "Ok"]

\* a Blinker right after the pushes that filled its empty stack with st
LiveInit ==
    /\ schedule \in Stacks
    /\ level \in {0, 1}
    /\ pc = "idle"
    /\ timer = 0
    /\ call = PushedCall(schedule, level)
    /\ resetFailed = FALSE
    /\ tracking = TRUE
    /\ pushed = schedule
    /\ steps = <<>>

\* a call to step on a pin that does not fail
StepNoFail == Step /\ call'.ret # "Err"

\* loop { blinker.step().await }: no push, no reset, no drop
LiveNext ==
    \/ StepNoFail
    \/ StepResume

\* the loop keeps calling step and the timer always fires
LiveSpec ==
    /\ LiveInit
    /\ [][LiveNext]_vars
    /\ WF_vars(StepNoFail)
    /\ WF_vars(StepResume)

AllFinite(v) == \A i \in 1..Len(v) : v[i].kind = "Finite"

\* --------------------------------------------------------------- C16
\* C16: under steady stepping on a non-failing pin, a dormant entry with only
\* Finite schedules above it eventually is the top, exactly as it was while
\* dormant; the stack never grows and shrinks only by losing its top, so
\* entries retire in reverse push order.
C16_DormantResumes ==
    /\ \A i \in 1..N : \A e \in Schedule :
           (/\ i < Len(schedule)
            /\ schedule[i] = e
            /\ \A j \in (i + 1)..Len(schedule) : schedule[j].kind = "Finite")
           ~> (pc = "idle" /\ Len(schedule) = i /\ schedule[i] = e)
    /\ [][/\ Len(schedule') <= Len(schedule)
          /\ Len(schedule') < Len(schedule) => schedule' = pop(schedule)
          /\ Len(schedule) >= 2 => IsPrefix(pop(schedule), schedule')]_vars

C16_Witness ==
    /\ Run(<<Infinite(1), Finite(MaxCount, 2)>>)
    /\ Len(steps) = MaxCount + 1
    /\ schedule = <<Infinite(1)>>

\* --------------------------------------------------------------- C17
RECURSIVE TotalToggles(_)
\* toggles a stack of Finite schedules performs until it is empty
TotalToggles(v) ==
    IF v = <<>> THEN 0 ELSE last(v).count + 1 + TotalToggles(pop(v))

\* C17: under steady stepping on a non-failing pin a stack of Finite
\* schedules becomes empty and stays empty; until then every step toggles
\* once, count + 1 times per schedule, and the steps after that are no-ops.
C17_FiniteStackDrains ==
    /\ AllFinite(schedule) ~> [](schedule = <<>>)
    /\ [](AllFinite(pushed) =>
            /\ Len(steps) < TotalToggles(pushed) => schedule # <<>>
            /\ (pc = "idle" /\ Len(steps) >= TotalToggles(pushed)) =>
                   /\ schedule = <<>>
                   /\ SumToggles(steps) = TotalToggles(pushed)
            /\ \A i \in 1..Len(steps) :
                   steps[i].toggles = IF i <= TotalToggles(pushed) THEN 1 ELSE 0)

C17_Witness ==
    /\ Run(<<Finite(MaxCount, 1), Finite(MaxCount, 2)>>)
    /\ Len(steps) = 2 * (MaxCount + 1) + 1
    /\ SumToggles(steps) = 2 * (MaxCount + 1)
    /\ schedule = <<>>

\* --------------------------------------------------------------- C18
\* C18: an Infinite entry at position i stays at position i, unchanged,
\* through every step and push (so the stack keeps at least i entries and
\* nothing below i becomes the top); only a successful reset removes it.
C18_InfiniteBlocksBelow ==
    [][\A i \in 1..Len(schedule) :
           (/\ schedule[i].kind = "Infinite"
            /\ ~(call'.op = "reset" /\ call'.ret = "Ok"))
           => /\ Len(schedule') >= i
              /\ schedule'[i] = schedule[i]
              /\ IsPrefix(SubSeq(schedule, 1, i), schedule')]_vars

C18_Witness ==
    /\ Run(<<Finite(1, 1), Infinite(2)>>)
    /\ Len(steps) = MaxSteps
    /\ \A i \in 1..MaxSteps : steps[i] = [toggles |-> 1, wait |-> 2]
    /\ schedule = <<Finite(1, 1), Infinite(2)>>

\* --------------------------------------------------------------- C19
\* the latest call toggled the pin successfully
Toggled ==
    /\ call.op = "step"
    /\ call.ret \in {"Pending", "Ok", "Dropped"}
    /\ call.pinOps = <<"toggle">>

\* C19: a step dropped at its suspension point has toggled the pin once,
\* the toggle stays and the top schedule's count is not consumed; every
\* completed and every dropped step on a non-empty stack accounts for exactly
\* one toggle and no other call for any, and the level is low after a
\* successful reset and flips once per successful toggle.
C19_CancelKeepsToggle ==
    /\ []((call.op = "step" /\ call.ret = "Dropped") =>
            /\ Toggled
            /\ schedule = call.pre
            /\ level = 1 - call.preLevel)
    /\ []((call.op = "step" /\ call.ret \in {"Ok", "Dropped"} /\ call.pre # <<>>)
            => Toggled)
    /\ [](level = IF call.op = "reset" /\ call.ret = "Ok" THEN 0
                  ELSE IF Toggled THEN 1 - call.preLevel
                  ELSE IF call.op = "none" THEN level
                  ELSE call.preLevel)
    /\ [][/\ pc = "idle" => call'.preLevel = level
          /\ pc = "timer" => (level' = level /\ call'.preLevel = call.preLevel)]_vars

C19_Witness ==
    /\ call.op = "step"
    /\ call.ret = "Dropped"
    /\ call.pre = <<Finite(MaxCount, 1)>>
    /\ schedule = <<Finite(MaxCount, 1)>>
    /\ call.preLevel = 0
    /\ level = 1
    /\ pc = "idle"
====
